---- MODULE Spec2Model ----
(***************************************************************************)
(* Model of src/index.js: the fallback download engine                     *)
(* (tryDownloadFromAllUrls over downloadAudioStream) on Node's event loop. *)
(*                                                                         *)
(* One action is one event-loop turn: the callback Node runs for an I/O    *)
(* event together with the promise reactions (microtasks) it triggers,     *)
(* which Node drains before it runs any other callback.  A settlement of   *)
(* the promise the loop awaits therefore carries, in the same action, the  *)
(* catch block of the loop and the synchronous part of the next attempt.   *)
(*                                                                         *)
(* sanitizeFileTitle is a pure function: it is an operator on sequences of *)
(* characters, applied by the actions of its own specification SanSpec.    *)
(***************************************************************************)
EXTENDS Integers, Sequences, FiniteSets, TLC

\* ---------------------------------------------------------------- bounds
MaxUrls == 2
MaxCalls == 2
BodyLen == 2
\* Titles are every string of up to MaxTitleLen characters of TitleChars,
\* alone or after a run of letters that makes the title one character longer
\* than the limit of line 41.
MaxTitleLen == 3

\* A candidate URL (or a Location target) is either one https.get accepts or
\* one it throws on synchronously (a relative Location, a protocol other
\* than https:).
UrlKinds == {"valid", "invalid"}
RedirectCodes == {301, 302}
ErrorCodes == {404, 500}

VARIABLES
    urls,       \* the candidate list handed to tryDownloadFromAllUrls
    dirOk,      \* the destination directory exists or mkdirSync can create it
    existed,    \* a file was at the destination when the call was made
    calls,      \* the downloadAudioStream calls made so far, in call order
    dest,       \* the inode the destination path names: {} (absent) or {k}
    content,    \* the content of that inode: a sequence of chunks <<attempt, k>>
    loop,       \* tryDownloadFromAllUrls: i, status, lastError, result
    crashed,    \* an uncaught 'error' event has ended the process
    started,    \* history: the url indexes the loop has attempted, in order
    deleted     \* history: the number of files the loop has unlinked

\* sanitizeFileTitle(title, preserveSpaces, replacement) and what it returned.
\* A string is a sequence of characters, each a one-character string; a code
\* point outside the Basic Multilingual Plane is written "U+1F600".
VARIABLES
    title,          \* the raw title
    preserveSpaces, \* second argument
    replacement,    \* third argument, one character
    results         \* <<sanitize(title)>>, then <<.., sanitize(sanitize(title))>>

sanVars == <<title, preserveSpaces, replacement, results>>

vars == <<urls, dirOk, existed, calls, dest, content, loop, crashed, started,
          deleted, sanVars>>

NoErr == [kind |-> "none", code |-> 0]
Err(k) == [kind |-> k, code |-> 0]
\* The status error without its code: "Failed to download" for every status.
StatusErr_NoCode(code) == [kind |-> "status", code |-> 0]
StatusErr(code) == [kind |-> "status", code |-> code]

\* The content served for attempt a, and the content of a file that was
\* there before the call.
Body(a) == [k \in 1..BodyLen |-> <<a, k>>]
OldContent == << <<0, 1>> >>
Hole == <<0, 0>>

\* The mutable program state as one value, so that the synchronous code of a
\* handler can be composed step by step.
Cur ==
    [calls |-> calls, dest |-> dest, content |-> content, loop |-> loop,
     crashed |-> crashed, started |-> started, deleted |-> deleted]

Commit(S) ==
    /\ calls' = S.calls
    /\ dest' = S.dest
    /\ content' = S.content
    /\ loop' = S.loop
    /\ crashed' = S.crashed
    /\ started' = S.started
    /\ deleted' = S.deleted
    /\ UNCHANGED <<urls, dirOk, existed, sanVars>>

RECURSIVE Settle(_, _, _, _)
RECURSIVE LoopResume(_, _, _)
RECURSIVE LoopCatch(_, _)
RECURSIVE LoopIter(_, _)
RECURSIVE StartCall(_, _, _, _)

NewCall(att, parent, fs, req) ==
    [att |-> att, parent |-> parent, promise |-> "pending", err |-> NoErr,
     isResolved |-> FALSE, req |-> req, fs |-> fs, ended |-> FALSE,
     listening |-> FALSE, pos |-> 0, ino |-> 0]

\* Settle as a plain callback would behave: every resolve or reject call
\* delivers its outcome, also after an earlier one.
Settle_Unguarded(S, c, how, e) ==
    LET S1 == [S EXCEPT !.calls[c].promise = how, !.calls[c].err = e]
        p == S.calls[c].parent
    IN  IF p # 0 THEN Settle(S1, p, how, e) ELSE LoopResume(S1, how, e)

\* new Promise(...), lines 76 and 88-90: resolve and reject act on a pending
\* promise only; a redirect hop's outcome is forwarded to its parent, and the
\* outcome of a call made by the loop resumes the loop's await (line 153).
Settle(S, c, how, e) ==
    IF S.calls[c].promise # "pending" THEN S
    ELSE LET S1 == [S EXCEPT !.calls[c].promise = how, !.calls[c].err = e]
             p == S.calls[c].parent
         IN  IF p # 0 THEN Settle(S1, p, how, e)
             ELSE LoopResume(S1, how, e)

\* LoopResume without the return of line 155: the loop goes on to the next
\* url after a success.
LoopResume_NoReturn(S, how, e) ==
    IF how = "resolved"
    THEN LoopIter(S, S.loop.i + 1)
    ELSE LoopCatch(S, e)

\* The await of line 153 resumes: return true (line 155) or the catch block.
LoopResume(S, how, e) ==
    IF how = "resolved"
    THEN [S EXCEPT !.loop.status = "returned"]
    ELSE LoopCatch(S, e)

\* The catch block, lines 156-164, then the next iteration.
LoopCatch(S, e) ==
    LET S1 == [S EXCEPT !.loop.lastError = e,
                        !.dest = {}, !.content = <<>>,
                        !.deleted = IF S.dest # {} THEN @ + 1 ELSE @]
    IN  LoopIter(S1, S.loop.i + 1)

\* The for loop, lines 150-153, and the throw of line 167.  With no attempt
\* made lastError is null and lastError.message throws a TypeError.
LoopIter(S, i) ==
    IF i > Len(urls)
    THEN [S EXCEPT !.loop.i = i, !.loop.status = "thrown",
                   !.loop.result =
                       IF S.loop.lastError = NoErr
                       THEN [kind |-> "TypeError", last |-> NoErr]
                       ELSE [kind |-> "AllDownloadsFailed",
                             last |-> S.loop.lastError]]
    ELSE StartCall([S EXCEPT !.loop.i = i, !.loop.status = "awaiting",
                             !.started = Append(@, i)],
                   i, 0, urls[i])

\* The promise executor, lines 76-85 and 127-143: mkdirSync, createWriteStream
\* (the open is asynchronous), https.get.  A throw inside the executor rejects
\* the promise.
StartCall(S, att, parent, url) ==
    LET c == Len(S.calls) + 1
        add(fs, req) ==
            [S EXCEPT !.calls = Append(@, NewCall(att, parent, fs, req))]
    IN  IF ~dirOk THEN Settle(add("none", "none"), c, "rejected", Err("fs"))
        ELSE IF url = "invalid"
             THEN Settle(add("opening", "none"), c, "rejected", Err("sync"))
             ELSE add("opening", "sent")

\* fileStream.close(): ends the stream; the descriptor is released later.
Close(S, c) ==
    IF S.calls[c].fs \in {"opening", "open"}
    THEN [S EXCEPT !.calls[c].ended = TRUE]
    ELSE S

\* The stream is destroyed: its descriptor, with its offset, is gone.
Released(call, fs) == [call EXCEPT !.fs = fs, !.pos = 0, !.ino = 0]

\* An uncaught exception ends the process: every socket and descriptor of
\* every call is released and no callback runs any more.
Exit(S) ==
    [S EXCEPT !.crashed = TRUE,
              !.calls = [c \in DOMAIN @ |->
                  LET r == [@[c] EXCEPT !.req =
                                IF @ = "none" THEN "none" ELSE "done"]
                  IN  IF r.fs \in {"opening", "open"}
                      THEN Released(r, "closed") ELSE r]]

\* if (!isResolved) { isResolved = true; resolve / reject }
GuardedSettle(S, c, how, e) ==
    IF S.calls[c].isResolved THEN S
    ELSE Settle([S EXCEPT !.calls[c].isResolved = TRUE], c, how, e)

Calls == 1..Len(calls)
\* The calls the loop may still make for the urls it has not reached.
Pending == IF loop.i < Len(urls) THEN Len(urls) - loop.i ELSE 0

\* -------------------------------------------------------------- actions

Init ==
    /\ urls \in UNION {[1..n -> UrlKinds] : n \in 0..MaxUrls}
    /\ dirOk \in BOOLEAN
    /\ calls = <<>>
    /\ existed \in BOOLEAN
    /\ existed => dirOk
    /\ dest = IF existed THEN {0} ELSE {}
    /\ content = IF existed THEN OldContent ELSE <<>>
    /\ loop = [i |-> 0, status |-> "idle", lastError |-> NoErr,
               result |-> [kind |-> "none", last |-> NoErr]]
    /\ crashed = FALSE
    /\ started = <<>>
    /\ deleted = 0
    /\ title = <<>>
    /\ preserveSpaces = TRUE
    /\ replacement = "-"
    /\ results = <<>>

\* tryDownloadFromAllUrls(urls, outputPath), up to its first await.
TryDownloadFromAllUrls ==
    /\ loop.status = "idle"
    /\ Commit(LoopIter(Cur, 1))

Live(c) == ~crashed /\ c \in Calls

\* fs.open with flag 'w' completes: creates the file or truncates it.
FileOpened(c) ==
    /\ Live(c)
    /\ calls[c].fs = "opening"
    /\ LET k == IF dest = {} THEN c ELSE CHOOSE x \in dest : TRUE
       IN  Commit([Cur EXCEPT !.calls[c].fs = "open", !.calls[c].ino = k,
                              !.dest = {k}, !.content = <<>>])

\* The write stream emits 'error' (open or write failure).  Lines 118-124
\* handle it once a 200 response has attached the listener; with no listener
\* the event is an uncaught exception.
FileError(c) ==
    /\ Live(c)
    /\ \/ calls[c].fs = "opening"
       \/ /\ calls[c].fs = "open"
          /\ calls[c].req = "body"
          /\ ~calls[c].ended
          /\ calls[c].pos < BodyLen
    /\ LET S1 == [Cur EXCEPT !.calls[c] = Released(@, "errored")]
       IN  IF calls[c].listening
           THEN Commit(GuardedSettle(
                    [S1 EXCEPT !.calls[c].req =
                         IF @ = "body" THEN "idle" ELSE @],
                    c, "rejected", Err("fs")))
           ELSE Commit(Exit(S1))

\* The ended stream releases its descriptor ('finish', then autoClose).
\* The 'finish' listener of lines 102-108 runs if it was attached.
FileClosed(c) ==
    /\ Live(c)
    /\ calls[c].fs = "open"
    /\ calls[c].ended
    /\ LET S1 == [Cur EXCEPT !.calls[c] = Released(@, "closed")]
       IN  IF calls[c].listening
           THEN Commit(GuardedSettle(S1, c, "resolved", NoErr))
           ELSE Commit(S1)

\* response.pipe(fileStream), line 100: one chunk of the body reaches the
\* file at the stream's own offset.
WriteAt(data, pos, chunk) ==
    IF pos < Len(data) THEN [data EXCEPT ![pos + 1] = chunk]
    ELSE data \o [k \in 1..(pos - Len(data)) |-> Hole] \o <<chunk>>

WriteChunk(c) ==
    /\ Live(c)
    /\ calls[c].req = "body"
    /\ calls[c].fs = "open"
    /\ ~calls[c].ended
    /\ calls[c].pos < BodyLen
    /\ LET k == calls[c].pos + 1
           f == calls[c].ino
       IN  Commit([Cur EXCEPT
                !.calls[c].pos = k,
                !.content = IF f \in dest
                            THEN WriteAt(@, k - 1, <<calls[c].att, k>>)
                            ELSE @])

\* The response ends, pipe ends the stream, 'finish' fires: lines 102-108.
StreamFinish(c) ==
    /\ Live(c)
    /\ calls[c].req = "body"
    /\ calls[c].fs = "open"
    /\ ~calls[c].ended
    /\ calls[c].pos = BodyLen
    /\ Commit(GuardedSettle(
           Close([Cur EXCEPT !.calls[c].req = "done"], c),
           c, "resolved", NoErr))

\* Lines 100-124: a 200 response is piped and the listeners are attached.
Response200(c) ==
    /\ Live(c)
    /\ calls[c].req = "sent"
    /\ Commit([Cur EXCEPT !.calls[c].req = "body",
                          !.calls[c].listening = TRUE])

\* Lines 86-92: a redirect closes the stream and delegates to a new call on
\* the Location target; the response is left unconsumed.
ResponseRedirect(c, code, loc) ==
    /\ Live(c)
    /\ calls[c].req = "sent"
    /\ code \in RedirectCodes
    /\ Len(calls) + Pending < MaxCalls
    /\ Commit(StartCall(Close([Cur EXCEPT !.calls[c].req = "idle"], c),
                        calls[c].att, c, loc))

\* Lines 94-98: any other status rejects; the response is left unconsumed.
ResponseStatus(c, code) ==
    /\ Live(c)
    /\ calls[c].req = "sent"
    /\ Commit(Settle(Close([Cur EXCEPT !.calls[c].req = "idle"], c),
                     c, "rejected", StatusErr(code)))

\* Lines 110-116: the response stream fails while the body is in transit.
ResponseError(c) ==
    /\ Live(c)
    /\ calls[c].req = "body"
    /\ calls[c].pos < BodyLen
    /\ Commit(GuardedSettle(Close([Cur EXCEPT !.calls[c].req = "done"], c),
                            c, "rejected", Err("network")))

\* Lines 127-133: the request fails before a response arrives.
RequestError(c) ==
    /\ Live(c)
    /\ calls[c].req = "sent"
    /\ Commit(GuardedSettle(Close([Cur EXCEPT !.calls[c].req = "done"], c),
                            c, "rejected", Err("network")))

\* Lines 136-143: the socket has been idle for 30 s.  The 'error' events
\* that download.destroy() causes find isResolved set and change nothing.
\* A response that was not consumed (redirect, other status) leaves the
\* socket idle, and the timer still runs on it.
Timeout(c) ==
    /\ Live(c)
    /\ \/ calls[c].req = "sent"
       \/ calls[c].req = "idle"
       \/ calls[c].req = "body" /\ calls[c].pos < BodyLen
    /\ Commit(GuardedSettle(Close([Cur EXCEPT !.calls[c].req = "done"], c),
                            c, "rejected", Err("timeout")))

\* The server closes the connection of an unconsumed response: the socket's
\* timer is gone and no listener of the call runs.
SocketClosed(c) ==
    /\ Live(c)
    /\ calls[c].req = "idle"
    /\ Commit([Cur EXCEPT !.calls[c].req = "done"])

Next ==
    \/ TryDownloadFromAllUrls
    \/ \E c \in Calls : FileOpened(c)
    \/ \E c \in Calls : FileError(c)
    \/ \E c \in Calls : FileClosed(c)
    \/ \E c \in Calls : WriteChunk(c)
    \/ \E c \in Calls : StreamFinish(c)
    \/ \E c \in Calls : Response200(c)
    \/ \E c \in Calls, code \in RedirectCodes, loc \in UrlKinds :
           ResponseRedirect(c, code, loc)
    \/ \E c \in Calls, code \in ErrorCodes : ResponseStatus(c, code)
    \/ \E c \in Calls : ResponseError(c)
    \/ \E c \in Calls : RequestError(c)
    \/ \E c \in Calls : Timeout(c)
    \/ \E c \in Calls : SocketClosed(c)

Spec == Init /\ [][Next]_vars

\* The event loop runs a callback whenever one is ready.
FairSpec == Spec /\ WF_vars(Next)

\* ------------------------------------------------- sanitizeFileTitle

MaxLength == 200
Untitled == <<"u", "n", "t", "i", "t", "l", "e", "d">>

\* \x00-\x1F of line 21: the control characters a TLA+ string can name.
ControlChars == {"\t", "\n", "\r", "\f"}
\* The class of line 21.
ReservedChars == {"<", ">", ":", "\"", "/", "\\", "|", "?", "*"} \cup ControlChars
\* The class of line 22 (its backquote cannot be written in a TLA+ string).
ProblemChars ==
    {"#", "%", "&", "{", "}", "[", "]", "~", "$", "!", ":", "@", "=",
     "+", ";", ",", "^"}
\* \s
Whitespace == {" ", "\t", "\n", "\r", "\f"}
\* [\u{10000}-\u{10FFFF}]
Astral == {"U+1F600"}

LowerLetters ==
    <<"a", "b", "c", "d", "e", "f", "g", "h", "i", "j", "k", "l", "m",
      "n", "o", "p", "q", "r", "s", "t", "u", "v", "w", "x", "y", "z">>
UpperLetters ==
    <<"A", "B", "C", "D", "E", "F", "G", "H", "I", "J", "K", "L", "M",
      "N", "O", "P", "Q", "R", "S", "T", "U", "V", "W", "X", "Y", "Z">>
\* The i flag of line 47.
Upper(ch) ==
    IF \E k \in 1..26 : LowerLetters[k] = ch
    THEN UpperLetters[CHOOSE k \in 1..26 : LowerLetters[k] = ch]
    ELSE ch
Digits19 == {"1", "2", "3", "4", "5", "6", "7", "8", "9"}
\* ^(CON|PRN|AUX|NUL|COM[1-9]|LPT[1-9])$
ReservedNames ==
    {<<"C", "O", "N">>, <<"P", "R", "N">>, <<"A", "U", "X">>,
     <<"N", "U", "L">>}
        \cup {<<"C", "O", "M", d>> : d \in Digits19}
        \cup {<<"L", "P", "T", d>> : d \in Digits19}

\* s.replace(/[class]/g, r)
ReplaceAll(s, class, r) ==
    [k \in 1..Len(s) |-> IF s[k] \in class THEN r ELSE s[k]]

\* The length of the run of class characters s starts with, ends with.
LeadRun(s, class) ==
    CHOOSE k \in 0..Len(s) :
        /\ \A j \in 1..k : s[j] \in class
        /\ k < Len(s) => s[k + 1] \notin class
TrailRun(s, class) ==
    CHOOSE k \in 0..Len(s) :
        /\ \A j \in (Len(s) - k + 1)..Len(s) : s[j] \in class
        /\ k < Len(s) => s[Len(s) - k] \notin class

\* s.replace(/^\s+|\s+$|^\.+|\.+$/g, ""), line 25: one pass from the left.
\* ^ matches at index 0 only, so one leading run goes, of spaces or of
\* periods, whichever the string starts with; then the first position from
\* which the rest of the string is all spaces or all periods starts the one
\* trailing run that goes.
StripEnds(s) ==
    LET lead == IF s = <<>> THEN 0
                ELSE IF s[1] \in Whitespace THEN LeadRun(s, Whitespace)
                ELSE IF s[1] = "." THEN LeadRun(s, {"."})
                ELSE 0
        rest == SubSeq(s, lead + 1, Len(s))
        m == Len(rest)
        trail == IF m = 0 THEN 0
                 ELSE IF rest[m] \in Whitespace THEN TrailRun(rest, Whitespace)
                 ELSE IF rest[m] = "." THEN TrailRun(rest, {"."})
                 ELSE 0
    IN  SubSeq(rest, 1, m - trail)

\* s.replace(/[class]+/g, r), lines 28 and 31: every run becomes one r.
CollapseRuns(s, class, r) ==
    LET marked == [k \in 1..Len(s) |->
                      IF s[k] \notin class THEN s[k]
                      ELSE IF k > 1 /\ s[k - 1] \in class THEN ""
                      ELSE r]
        Kept(ch) == ch # ""
    IN  SelectSeq(marked, Kept)

\* s.replace(/[\u{10000}-\u{10FFFF}]/gu, ""), line 34.
RemoveAstral(s) ==
    LET Kept(ch) == ch \notin Astral
    IN  SelectSeq(s, Kept)

\* Truncate without the limit.
Truncate_Off(s) == s

\* s.substring(0, 200), line 41.  substring counts UTF-16 units; after line
\* 34 every character left is one unit.
Truncate(s) == IF Len(s) > MaxLength THEN SubSeq(s, 1, MaxLength) ELSE s

\* s.replace(new RegExp(replacement + "$"), ""), line 44: one occurrence.
StripTrailing(s, r) ==
    IF s # <<>> /\ s[Len(s)] = r THEN SubSeq(s, 1, Len(s) - 1) ELSE s

\* reservedNames.test(s), line 47.
IsReservedName(s) == [k \in 1..Len(s) |-> Upper(s[k])] \in ReservedNames

\* Lines 13-53.
sanitizeFileTitle(t, keepSpaces, r) ==
    IF t = <<>> THEN Untitled
    ELSE LET s21 == ReplaceAll(t, ReservedChars, r)
             s22 == ReplaceAll(s21, ProblemChars, r)
             s25 == StripEnds(s22)
             s28 == CollapseRuns(s25, Whitespace, IF keepSpaces THEN " " ELSE r)
             s31 == CollapseRuns(s28, {r}, r)
             s34 == RemoveAstral(s31)
         IN  IF s34 = <<>> THEN Untitled
             ELSE LET s41 == Truncate(s34)
                      s44 == StripTrailing(s41, r)
                  IN  IF IsReservedName(s44) THEN <<"_">> \o s44 ELSE s44

\* The inputs the sanitizer is checked on.
TitleChars == {"C", "O", "N", " ", ".", "-", "_", "?", "#", "U+1F600"}
Replacements == {"-", "_"}
ShortTitles == UNION {[1..n -> TitleChars] : n \in 0..MaxTitleLen}
Pad(n) == [k \in 1..n |-> "O"]
Titles ==
    ShortTitles \cup
        {Pad(MaxLength + 1 - MaxTitleLen) \o t : t \in [1..MaxTitleLen -> TitleChars]}

\* The downloader before any call: the sanitizer runs first.
SanInit ==
    /\ title \in Titles
    /\ preserveSpaces \in BOOLEAN
    /\ replacement \in Replacements
    /\ results = <<>>
    /\ urls = <<>>
    /\ dirOk = TRUE
    /\ existed = FALSE
    /\ calls = <<>>
    /\ dest = {}
    /\ content = <<>>
    /\ loop = [i |-> 0, status |-> "idle", lastError |-> NoErr,
               result |-> [kind |-> "none", last |-> NoErr]]
    /\ crashed = FALSE
    /\ started = <<>>
    /\ deleted = 0

SanUnchanged ==
    UNCHANGED <<title, preserveSpaces, replacement, urls, dirOk, existed,
                calls, dest, content, loop, crashed, started, deleted>>

\* sanitizeFileTitle(title, preserveSpaces, replacement)
SanitizeTitle ==
    /\ results = <<>>
    /\ results' = <<sanitizeFileTitle(title, preserveSpaces, replacement)>>
    /\ SanUnchanged

\* sanitizeFileTitle applied to its own output, with the same arguments.
SanitizeResult ==
    /\ Len(results) = 1
    /\ results' = Append(results,
                         sanitizeFileTitle(results[1], preserveSpaces,
                                           replacement))
    /\ SanUnchanged

SanNext == SanitizeTitle \/ SanitizeResult

SanSpec == SanInit /\ [][SanNext]_vars

\* --------------------------------------------------------------- claims

Top(c) == calls[c].parent = 0
\* The call the loop made for the attempt that call c belongs to.
RECURSIVE Root(_)
Root(c) == IF calls[c].parent = 0 THEN c ELSE Root(calls[c].parent)
Settled(c) == calls[c].promise # "pending"
HoldsFile(c) == calls[c].fs \in {"opening", "open"}
HoldsSocket(c) == calls[c].req \in {"sent", "body", "idle"}
Active(c) == ~Settled(c) \/ HoldsFile(c) \/ HoldsSocket(c)
\* No open or close of a write stream is still in flight.
NoPendingFileOps ==
    \A c \in Calls :
        /\ calls[c].fs # "opening"
        /\ ~(calls[c].fs = "open" /\ calls[c].ended)

(* C1: the urls are attempted in list order, and once the attempt on urls[i]
   has succeeded the call has returned success and no url after i is ever
   attempted. *)
C1_InOrderStopOnSuccess ==
    /\ started = [k \in 1..Len(started) |-> k]
    /\ Len(started) <= Len(urls)
    /\ \A c \in Calls :
           (Top(c) /\ calls[c].promise = "resolved")
               => (loop.status = "returned" /\ Len(started) = calls[c].att)

\* The first of two urls succeeded and the second was never attempted.
C1_Witness ==
    /\ loop.status = "returned"
    /\ Len(started) < Len(urls)
    /\ \E c \in Calls : Top(c) /\ calls[c].promise = "resolved"

(* C2: at most one attempt is active on the destination: no call of a later
   attempt exists while a call of an earlier attempt (a redirect hop
   included) is unsettled or still holds a file handle or a socket. *)
C2_OneAttemptActive ==
    \A c, d \in Calls : calls[c].att < calls[d].att => ~Active(c)

(* C3: when the first M attempts failed and attempt M+1 succeeded, exactly
   M partial files were deleted, and once tryDownloadFromAllUrls has
   returned the destination holds exactly the complete content served for
   attempt M+1. *)
C3_PartialsDeletedContentComplete ==
    loop.status = "returned"
        => /\ deleted = loop.i - 1
           /\ dest # {}
           /\ content = Body(loop.i)

(* C4: after every url has failed no file exists at the destination once
   the pending opens and closes of the attempts have completed. *)
C4_NoFileAfterAllFailed ==
    (loop.result.kind = "AllDownloadsFailed" /\ NoPendingFileOps) => dest = {}

(* C5: for every candidate list, the empty list included, a call in which
   no url succeeds fails with 'All downloads failed' carrying the error of
   the last attempt, and with no other error. *)
C5_AllSourcesExhausted ==
    loop.status = "thrown"
        => /\ loop.result.kind = "AllDownloadsFailed"
           /\ \E c \in Calls :
                  /\ Top(c) /\ calls[c].att = Len(urls)
                  /\ calls[c].promise = "rejected"
                  /\ loop.result.last = calls[c].err

(* C6: the outcome of a downloadAudioStream call, once reported, is never
   reported again and never changed by a later event. *)
C6_SettledOnce ==
    [][ \A c \in Calls :
            Settled(c) => /\ calls'[c].promise = calls[c].promise
                          /\ calls'[c].err = calls[c].err ]_vars

\* A call rejected for its status whose timeout handler has run afterwards.
C6_Witness ==
    \E c \in Calls :
        /\ calls[c].promise = "rejected"
        /\ calls[c].err.kind = "status"
        /\ calls[c].isResolved

(* C7: under fair scheduling of the events every downloadAudioStream call
   eventually settles. *)
C7_EventuallySettles ==
    \A c \in 1..MaxCalls :
        [](c \in Calls => <>(c \in Calls /\ Settled(c)))

(* C8: a redirect is followed transparently: the redirected call's outcome
   is the outcome of the call on the Location target, and a hop consumes no
   entry of the fallback list. *)
C8_RedirectTransparent ==
    /\ \A h \in Calls :
           ~Top(h) =>
               LET p == calls[h].parent
               IN  /\ calls[h].att = calls[p].att
                   /\ Settled(p) => /\ calls[p].promise = calls[h].promise
                                     /\ calls[p].err = calls[h].err
    /\ Len(started) = Cardinality({c \in Calls : Top(c)})

(* C9: when the timeout of a call fires while its attempt is unsettled, the
   attempt fails with the timeout error, the attempt's network requests are
   aborted and its output streams are closed, and no file is at the
   destination after the fallback downloader has handled the failure. *)
C9_TimeoutCleansUp ==
    [][ \A c \in Calls :
            (Timeout(c) /\ ~Settled(Root(c)))
                => /\ calls'[Root(c)].promise = "rejected"
                   /\ calls'[Root(c)].err.kind = "timeout"
                   /\ \A d \in Calls :
                          calls[d].att = calls[c].att
                              => /\ calls'[d].req \notin {"sent", "body"}
                                 /\ calls'[d].fs \in {"opening", "open"}
                                        => calls'[d].ended
                   /\ dest' = {} ]_vars

(* C10: an error of the output stream at any point before the call has
   settled makes the call fail with that filesystem error. *)
C10_FileErrorRejects ==
    [][ \A c \in Calls :
            (calls[c].fs # "errored" /\ calls'[c].fs = "errored"
                /\ ~Settled(c))
                => /\ calls'[c].promise = "rejected"
                   /\ calls'[c].err.kind = "fs" ]_vars

(* C11: the output stream of every attempt is eventually closed, whichever
   way the downloadAudioStream call that created it ends. *)
C11_StreamEventuallyClosed ==
    \A c \in 1..MaxCalls :
        []((c \in Calls /\ HoldsFile(c))
               => <>(c \in Calls /\ ~HoldsFile(c)))

(* C12: the loop deletes the destination only after the failed attempt has
   released its file handles and its sockets: at no deletion is a write
   stream of the failed attempt open or about to open, or a socket of it
   still held. *)
C12_DeleteAfterRelease ==
    [][ deleted' # deleted
            => \A c \in Calls :
                   calls[c].att = loop.i
                       => /\ calls'[c].fs \notin {"opening", "open"}
                          /\ calls'[c].req \notin {"sent", "body", "idle"}
      ]_vars

(* C13: a response whose status is neither 200 nor 301/302 makes the call
   fail with an error carrying that status code and closes the output
   stream, and the call writes no byte of the response body, then or
   later. *)
C13_StatusRejects ==
    [][ \A c \in Calls :
            /\ \A code \in ErrorCodes :
                   ResponseStatus(c, code)
                       => /\ calls'[c].promise = "rejected"
                          /\ calls'[c].err.kind = "status"
                          /\ calls'[c].err.code = code
                          /\ calls'[c].fs \in {"opening", "open"}
                                 => calls'[c].ended
                          /\ ~calls'[c].listening
                          /\ calls'[c].pos = 0
            /\ (calls[c].promise = "rejected" /\ calls[c].err.kind = "status")
                   => /\ calls'[c].pos = 0
                      /\ ~calls'[c].listening ]_vars

\* A call rejected with status 404 whose stream, open when the response
\* came, has been ended by close().
C13_Witness ==
    \E c \in Calls :
        /\ calls[c].promise = "rejected"
        /\ calls[c].err.kind = "status"
        /\ calls[c].err.code = 404
        /\ calls[c].req = "idle"
        /\ calls[c].fs = "open"
        /\ calls[c].ended
        /\ ~calls[c].isResolved

(* C19: a file that was at the destination before the call never keeps its
   prior content: once tryDownloadFromAllUrls has ended and the pending
   opens and closes of its attempts have completed, the destination holds
   the content downloaded by the successful attempt, or, when every
   attempt failed, does not exist. *)
C19_PriorContentReplaced ==
    (existed /\ loop.status \in {"returned", "thrown"} /\ NoPendingFileOps)
        => /\ ~(dest # {} /\ content = OldContent)
           /\ loop.status = "returned"
                  => (dest # {} /\ content = Body(loop.i))
           /\ loop.status = "thrown" => dest = {}

\* Call c has handed its outcome over to a redirect hop (lines 88-90).
Delegated(c) == \E d \in Calls : calls[d].parent = c
\* Call c was settled by a resolve or reject call of one of its own handlers:
\* not by the hop it delegated to, and not by a throw inside the executor.
SettledByHandler(c) ==
    /\ Settled(c)
    /\ ~Delegated(c)
    /\ calls[c].fs # "none"
    /\ calls[c].err.kind # "sync"

(* C20: isResolved is true whenever one of the call's own handlers has
   invoked resolve or reject, and no handler passes the isResolved guard
   after the call has been settled or delegated to a redirect hop. *)
C20_IsResolvedTracksSettlement ==
    [][ /\ \A c \in Calls : SettledByHandler(c) => calls[c].isResolved
        /\ (\A c \in Calls : SettledByHandler(c) => calls[c].isResolved)'
        /\ \A c \in Calls :
               (~calls[c].isResolved /\ calls'[c].isResolved)
                   => (~Settled(c) /\ ~Delegated(c)) ]_vars

(* C14: sanitizeFileTitle never returns the empty string. *)
C14_NeverEmpty ==
    \A k \in 1..Len(results) : results[k] # <<>>

(* C15: the output of sanitizeFileTitle has no leading or trailing
   whitespace and no leading or trailing period. *)
C15_NoEdgeSpaceOrPeriod ==
    \A k \in 1..Len(results) :
        results[k] # <<>>
            => /\ results[k][1] \notin Whitespace \cup {"."}
               /\ results[k][Len(results[k])] \notin Whitespace \cup {"."}

(* C16: sanitizeFileTitle is idempotent: applied to its own output with the
   same preserveSpaces and replacement it returns that output. *)
C16_Idempotent ==
    Len(results) = 2 => results[2] = results[1]

(* C17: with the default replacement "-" the output has at most 200
   characters and contains no reserved character (a control character or
   one of the nine of line 21) and no secondary problematic character (one
   of line 22). *)
C17_LengthAndCharset ==
    replacement = "-"
        => \A k \in 1..Len(results) :
               /\ Len(results[k]) <= MaxLength
               /\ \A j \in 1..Len(results[k]) :
                      results[k][j] \notin ReservedChars \cup ProblemChars

\* A title longer than the limit, with a reserved and a problematic
\* character in it, sanitized to exactly 200 characters.
C17_Witness ==
    /\ replacement = "-"
    /\ Len(title) > MaxLength
    /\ \E j \in 1..Len(title) : title[j] \in ReservedChars
    /\ \E j \in 1..Len(title) : title[j] \in ProblemChars
    /\ Len(results) >= 1
    /\ Len(results[1]) = MaxLength

(* C18: an output other than the placeholder does not end with the
   replacement character and has no two consecutive replacement
   characters. *)
C18_NoTrailingOrDoubleReplacement ==
    \A k \in 1..Len(results) :
        results[k] # Untitled
            => /\ results[k] # <<>>
                      => results[k][Len(results[k])] # replacement
               /\ \A j \in 1..(Len(results[k]) - 1) :
                      ~(results[k][j] = replacement
                            /\ results[k][j + 1] = replacement)

====
